---- MODULE Spec2Model ----
(***************************************************************************)
(* The PPO-enhanced fuzzing campaign of fuzzing-framework:                 *)
(*   experiment_runner.py  main, ExperimentRunner.run_ppo_enhanced         *)
(*   ppo_agent.py          PPOAgent (buffer, update, returns, reward)      *)
(*   afl_wrapper.py        AFLWrapper (process, statistics file, metrics)  *)
(*                                                                         *)
(* One behaviour is one run of main() in mode "ppo".  pc is the position   *)
(* of the control thread; the fuzzer process, the statistics file, the     *)
(* interruption signal and the sampled values are the environment.         *)
(*                                                                         *)
(* Numbers.  Telemetry values are integers.  A state vector is kept as     *)
(* the numerators over the common denominator 10000, a reward as the       *)
(* numerator over 1000, a mean loss as the pair (num, den).  float32       *)
(* rounding is not modelled.  A NaN is carried as a flag.                  *)
(*                                                                         *)
(* torch.  The network is abstract: policy.steps counts the optimizer      *)
(* steps applied, policy.nan says the parameters hold NaN.  What is kept   *)
(* of torch is what decides control flow: tensor shapes broadcast or       *)
(* raise, std() of fewer than two values and mean() of none are NaN, a     *)
(* NaN loss computed from values makes every parameter NaN                 *)
(* (clip_grad_norm_ scales all gradients by a NaN norm), and Categorical   *)
(* refuses NaN probabilities                                               *)
(* (validate_args is on by default; sampling refuses them as well).        *)
(***************************************************************************)
EXTENDS Integers, Sequences, FiniteSets, TLC

VARIABLES
    pc,                  \* position of the control thread
    exc,                 \* exception in flight ("none" when there is none)
    rc,                  \* outcome of main(): "running", "0", "1", "exception"
    args,                \* command line: target_exists, duration
    ppo_config,          \* ExperimentRunner.ppo_config (keys: the keys present)
    proc,                \* AFLWrapper.process: "None" or "Popen"
    fuzzer,              \* the fuzzer process: "none", "alive", "killed", or
                         \* "died_early" / "died_late": exited by itself before /
                         \* after the campaign's duration had elapsed
    now,                 \* time.time() - start_time, in sleep intervals
    faults,              \* damaged statistics files served so far
    prev_metrics,        \* <<>> for None, <<m>> for a snapshot
    curr_metrics,        \* <<>> before the first read
    buffer,              \* PPOAgent.buffer: six lists
    ppo_update_counter,
    policy,              \* PPOAgent.policy parameters (and optimizer state)
    tr,                  \* locals of the tick: state, action, reward, ...
    upd,                 \* frame of PPOAgent.update: caller, epoch, total_loss
    step,                \* statements done inside store_transition / clear_buffer
    loss,                \* run_ppo_enhanced's local `loss`
    ckpt,                \* ppo_model.pt on disk
    sigs,                \* interruption signals delivered
    sig_at,              \* where the signal arrived: "none", "pre", "loop", "finally"
    strategy,            \* last strategy named by apply_mutation_strategy
    feed,                \* how the fuzzer's published numbers grow over time
    analyzer,            \* the FeedbackAnalyzer object: previous_metrics
    call                 \* a method called on its own: its name and its result

vars == <<pc, exc, rc, args, ppo_config, proc, fuzzer, now, faults, prev_metrics,
          curr_metrics, buffer, ppo_update_counter, policy, tr, upd, step,
          loss, ckpt, sigs, sig_at, strategy, feed, analyzer, call>>

----------------------------------------------------------------------------
(* Bounds of the model *)

MaxDuration == 3
MaxBatch == 2
MaxInterval == 2
MaxEpochs == 2
MaxSignals == 1
MaxFaults == 1
MaxLen == 3
SnapshotsFed == MaxDuration + 2

(* Program constants *)

state_dim == 5
action_dim == 5
BufferKeys == 6

----------------------------------------------------------------------------
(* Configuration *)

InitKeys == {"hidden_layers", "learning_rate", "gamma", "epsilon_clip",
             "epochs", "entropy_coefficient"}

LateKeys == {"reward_weights", "batch_size", "update_interval"}

ConfigKeys == InitKeys \cup LateKeys

\* config[k]: a KeyError when the key is absent
HasKey(cfg, k) == k \in cfg.keys

Weights == [coverage_increase |-> 1, unique_crash |-> 10,
            execution_speed |-> 1, path_diversity |-> 1]

\* config['reward_weights']
WeightSets ==
    {Weights,
     [coverage_increase |-> 2, unique_crash |-> 0, execution_speed |-> 3,
      path_diversity |-> 5]}

Configs ==
    { [keys |-> ConfigKeys \ missing, batch_size |-> b, update_interval |-> u,
       epochs |-> e, reward_weights |-> Weights] :
         missing \in {{}} \cup {{k} : k \in ConfigKeys},
         b \in 1..MaxBatch, u \in 1..MaxInterval, e \in 1..MaxEpochs }

----------------------------------------------------------------------------
(* The statistics file and AFLWrapper.get_metrics *)

\* a value of the file: text that parses as a number, or text that does not
Tok(n) == [num |-> TRUE, val |-> n]

BadTok == [num |-> FALSE, val |-> 0]

NoStats == [k \in {} |-> BadTok]

\* what the fuzzer has published after t intervals
GoodStats(t) ==
    [k \in {"bitmap_cvg", "unique_crashes", "execs_per_sec", "paths_total",
            "paths_found", "pending_total"} |->
        CASE k = "bitmap_cvg"     -> Tok(10 + 5 * t)
          [] k = "unique_crashes" -> Tok(t)
          [] k = "execs_per_sec"  -> Tok(1000)
          [] k = "paths_total"    -> Tok(10 * t)
          [] k = "paths_found"    -> Tok(100 * t)
          [] OTHER                -> Tok(5)]

Damage(stats, k) == [stats EXCEPT ![k] = BadTok]

\* the files a read can find: the sound one first, then the damaged ones
SoundFile(t) == [exists |-> TRUE, stats |-> GoodStats(t)]

DamagedFiles(t) ==
    { [exists |-> FALSE, stats |-> NoStats],
      [exists |-> TRUE, stats |-> NoStats],
      [exists |-> TRUE, stats |-> Damage(GoodStats(t), "bitmap_cvg")],
      [exists |-> TRUE, stats |-> Damage(GoodStats(t), "unique_crashes")] }

IsDamaged(file) == file.stats = NoStats \/ \E k \in DOMAIN file.stats : ~file.stats[k].num

get_stats(file) == IF ~file.exists THEN NoStats ELSE file.stats

\* stats.get(k, 0)
StatsGet(stats, k) == IF k \in DOMAIN stats THEN stats[k] ELSE Tok(0)

\* float(bitmap_cvg.rstrip('%')) inside try/except: 0.0 when it does not parse
parse_coverage(stats) ==
    LET bitmap_cvg == StatsGet(stats, "bitmap_cvg")
    IN  IF bitmap_cvg.num THEN bitmap_cvg.val ELSE 0

NumericKeys == {"unique_crashes", "execs_per_sec", "paths_total",
                "paths_found", "pending_total"}

\* int(...) / float(...) outside any try: ValueError when a field does not parse
MetricsRaise(stats) ==
    /\ stats # NoStats
    /\ \E k \in NumericKeys : ~StatsGet(stats, k).num

DefaultMetrics ==
    [coverage_rate |-> 0, crash_count |-> 0, exec_speed |-> 0, queue_size |-> 0,
     unique_paths |-> 0, pending_paths |-> 0, runtime |-> 0]

get_metrics(file, t) ==
    LET stats == get_stats(file)
    IN  IF stats = NoStats
        THEN DefaultMetrics
        ELSE [coverage_rate |-> parse_coverage(stats),
              crash_count   |-> StatsGet(stats, "unique_crashes").val,
              exec_speed    |-> StatsGet(stats, "execs_per_sec").val,
              queue_size    |-> StatsGet(stats, "paths_total").val,
              unique_paths  |-> StatsGet(stats, "paths_found").val,
              pending_paths |-> StatsGet(stats, "pending_total").val,
              runtime       |-> t]

----------------------------------------------------------------------------
(* PPOAgent: state vector, reward, buffer *)

\* metrics.get(k, 0.0)
MetricsGet(m, k) == IF k \in DOMAIN m THEN m[k] ELSE 0

\* a vector with the divisors of queue_size and unique_paths exchanged
get_state_vectorMut(m) ==
    << MetricsGet(m, "coverage_rate") * 10000, MetricsGet(m, "crash_count") * 100,
       MetricsGet(m, "exec_speed") * 10, MetricsGet(m, "queue_size"),
       MetricsGet(m, "unique_paths") * 10 >>

\* PPOAgent.get_state_vector: numerators over 10000
get_state_vector(m) ==
    << MetricsGet(m, "coverage_rate") * 10000, MetricsGet(m, "crash_count") * 100,
       MetricsGet(m, "exec_speed") * 10, MetricsGet(m, "queue_size") * 10,
       MetricsGet(m, "unique_paths") >>

\* a reward that takes 0.1 off when coverage and paths both stand still
compute_rewardPenaltyMut(cfg, prev, curr) ==
    LET weights == cfg.reward_weights
    IN  weights.coverage_increase * (curr.coverage_rate - prev.coverage_rate) * 1000
          + weights.unique_crash * (curr.crash_count - prev.crash_count) * 1000
          + weights.execution_speed * curr.exec_speed
          + weights.path_diversity * (curr.unique_paths - prev.unique_paths) * 10
          - (IF curr.coverage_rate = prev.coverage_rate
                /\ curr.unique_paths = prev.unique_paths THEN 100 ELSE 0)

\* a reward with every delta taken the other way round
compute_rewardSwapMut(cfg, prev, curr) ==
    LET weights == cfg.reward_weights
    IN  weights.coverage_increase * (prev.coverage_rate - curr.coverage_rate) * 1000
          + weights.unique_crash * (prev.crash_count - curr.crash_count) * 1000
          + weights.execution_speed * curr.exec_speed
          + weights.path_diversity * (prev.unique_paths - curr.unique_paths) * 10

\* a reward that takes the current values for the deltas
compute_rewardMut(cfg, prev, curr) ==
    LET weights == cfg.reward_weights
    IN  weights.coverage_increase * curr.coverage_rate * 1000
          + weights.unique_crash * curr.crash_count * 1000
          + weights.execution_speed * curr.exec_speed
          + weights.path_diversity * curr.unique_paths * 10

\* numerator over 1000
compute_reward(cfg, prev, curr) ==
    LET weights         == cfg.reward_weights
        coverage_delta  == curr.coverage_rate - prev.coverage_rate
        crash_delta     == curr.crash_count - prev.crash_count
        path_delta      == curr.unique_paths - prev.unique_paths
        coverage_reward == weights.coverage_increase * coverage_delta * 1000
        crash_reward    == weights.unique_crash * crash_delta * 1000
        speed_reward    == weights.execution_speed * curr.exec_speed
        path_reward     == weights.path_diversity * path_delta * 10
    IN  coverage_reward + crash_reward + speed_reward + path_reward

EmptyBuffer ==
    [states |-> <<>>, actions |-> <<>>, rewards |-> <<>>, log_probs |-> <<>>,
     values |-> <<>>, dones |-> <<>>]

\* the order of the appends in store_transition and of the keys in clear_buffer
BufferKey(i) ==
    CASE i = 1 -> "states"
      [] i = 2 -> "actions"
      [] i = 3 -> "rewards"
      [] i = 4 -> "log_probs"
      [] i = 5 -> "values"
      [] OTHER -> "dones"

FreshPolicy == [steps |-> 0, nan |-> FALSE, mid |-> FALSE]

NoTr == [state |-> <<>>, action |-> 0, reward |-> 0, log_prob |-> 0,
         value |-> 0, done |-> FALSE]

\* a float: num/den, or NaN; den = 0 marks a local not yet assigned
NoLoss == [nan |-> FALSE, num |-> 0, den |-> 0]

ZeroLoss == [nan |-> FALSE, num |-> 0, den |-> 1]

NoUpd == [caller |-> "none", ep |-> 0, total |-> 0, nan |-> FALSE, ret |-> NoLoss]

LastGood == [writer |-> "previous", params |-> FreshPolicy]

----------------------------------------------------------------------------
(* torch: shapes of the tensors update() builds from the six lists *)

Min(a, b) == IF a < b THEN a ELSE b

Broadcastable(a, b) == a = b \/ a = 1 \/ b = 1

Broadcast(a, b) == IF a = 1 THEN b ELSE a

\* _compute_returns zips rewards with dones: as long as the shorter one
ReturnsLen(buf) == Min(Len(buf.rewards), Len(buf.dones))

\* advantages = returns - values
AdvantagesLen(buf) == Broadcast(ReturnsLen(buf), Len(buf.values))

\* line 157: returns - values
PreludeShapesOK(buf) == Broadcastable(ReturnsLen(buf), Len(buf.values))

\* lines 166-176: log_prob(actions), new - old log probs, ratio * advantages,
\* MSELoss(state_values.squeeze(), returns)
EpochShapesOK(buf) ==
    LET new_log_probs == Broadcast(Len(buf.actions), Len(buf.states))
        ratio         == Broadcast(new_log_probs, Len(buf.log_probs))
    IN  /\ Broadcastable(Len(buf.actions), Len(buf.states))
        /\ Broadcastable(new_log_probs, Len(buf.log_probs))
        /\ Broadcastable(ratio, AdvantagesLen(buf))
        /\ Broadcastable(Len(buf.states), ReturnsLen(buf))

\* line 158: advantages.std() of fewer than two values is NaN
AdvantagesNaN(buf) == AdvantagesLen(buf) < 2

\* lines 174-183 on no advantages at all: the means of lines 174-175 are
\* taken over nothing, so the loss is NaN, but no gradient flows through an
\* empty tensor: the step of line 183 follows the entropy term alone and
\* the parameters stay finite
EmptyBatch(buf) == AdvantagesLen(buf) = 0

\* the loss values one epoch can compute, apart from NaN
FiniteLosses == {-1, 2}

NaNLoss == [nan |-> TRUE, num |-> 0, den |-> 1]

\* total_loss / self.epochs
MeanLoss(u, epochs) ==
    IF u.nan THEN NaNLoss ELSE [nan |-> FALSE, num |-> u.total, den |-> epochs]

----------------------------------------------------------------------------
(* Positions and exceptions *)

UpdatePCs == {"upd_check", "epoch", "clear", "upd_ret"}

PrePCs == {"construct", "start", "alive"}

TryPCs == {"loop", "sleep", "metrics", "decide", "store", "count", "copy"}

FinallyPCs == {"finally", "save", "stop", "export"}

\* inside the try block of run_ppo_enhanced (lines 110-149)
InTry == pc \in TryPCs \/ (pc \in UpdatePCs /\ upd.caller = "loop")

\* inside its finally block (lines 154-168)
InFinally == pc \in FinallyPCs \/ (pc \in UpdatePCs /\ upd.caller = "final")

\* what lives in the frame of run_ppo_enhanced and in the objects it owns
Frame == <<proc, now, prev_metrics, curr_metrics, buffer, ppo_update_counter,
           policy, tr, upd, step, loss, strategy>>

\* what run_ppo_enhanced never writes: the fuzzer's progress, the analyzer
\* it constructs at line 94 and never calls, the result of a direct call
Apart == <<feed, analyzer, call>>

\* what outlives the function: the inputs, the fuzzer process, the disk,
\* the history of the environment
Outside == <<args, ppo_config, fuzzer, faults, ckpt, sigs, sig_at, Apart>>

\* run_ppo_enhanced is left: its frame and its objects are gone
FrameDropped ==
    /\ proc' = "None"
    /\ now' = 0
    /\ prev_metrics' = <<>>
    /\ curr_metrics' = <<>>
    /\ buffer' = EmptyBuffer
    /\ ppo_update_counter' = 0
    /\ policy' = FreshPolicy
    /\ tr' = NoTr
    /\ upd' = NoUpd
    /\ step' = 0
    /\ loss' = NoLoss
    /\ strategy' = "none"

\* The try block is left for the finally block.  The locals the finally
\* block never reads (the snapshots, the counter, the tick's values, the
\* last loss) are dropped here.
LoopLocalsDropped ==
    /\ prev_metrics' = <<>>
    /\ curr_metrics' = <<>>
    /\ ppo_update_counter' = 0
    /\ tr' = NoTr
    /\ upd' = NoUpd
    /\ step' = 0
    /\ loss' = NoLoss
    /\ strategy' = "none"

\* an exception e is raised inside the try block: a KeyboardInterrupt is
\* caught (line 151), anything else stays in flight while the finally runs
Caught(e) ==
    /\ pc' = "finally"
    /\ exc' = IF e = "KeyboardInterrupt" THEN "none" ELSE e
    /\ rc' = rc
    /\ LoopLocalsDropped
    /\ UNCHANGED <<proc, now, buffer, policy>>

\* an exception e leaves run_ppo_enhanced and main
Leaves(e) ==
    /\ pc' = "exit"
    /\ exc' = e
    /\ rc' = "exception"
    /\ FrameDropped

\* an exception e raised by a step that changes nothing else
Throw(e) ==
    IF InTry THEN Caught(e) ELSE Leaves(e)

----------------------------------------------------------------------------
(* Initial state: main() entered, nothing constructed yet *)

\* FeedbackAnalyzer.__init__: previous_metrics = None (<<>>); was_reset
\* records that reset() has been called on the instance
NoAnalyzer == [previous_metrics |-> <<>>, was_reset |-> FALSE]

NoCall == [fn |-> "none", out |-> <<>>]

InitWith(durations, configs, feeds) ==
    /\ pc = "main"
    /\ exc = "none"
    /\ rc = "running"
    /\ args \in [target_exists : BOOLEAN, duration : durations]
    /\ ppo_config \in configs
    /\ proc = "None"
    /\ fuzzer = "none"
    /\ now = 0
    /\ faults = 0
    /\ prev_metrics = <<>>
    /\ curr_metrics = <<>>
    /\ buffer = EmptyBuffer
    /\ ppo_update_counter = 0
    /\ policy = FreshPolicy
    /\ tr = NoTr
    /\ upd = NoUpd
    /\ step = 0
    /\ loss = NoLoss
    /\ ckpt = LastGood
    /\ sigs = 0
    /\ sig_at = "none"
    /\ strategy = "none"
    /\ feed \in feeds
    /\ analyzer = NoAnalyzer
    /\ call = NoCall

Init == InitWith(1..MaxDuration, Configs, {"steady"})

----------------------------------------------------------------------------
(* main and the start of run_ppo_enhanced *)

\* main, lines 255-263
Main ==
    /\ pc = "main"
    /\ IF ~args.target_exists
       THEN pc' = "exit" /\ rc' = "1"
       ELSE pc' = "construct" /\ rc' = rc
    /\ UNCHANGED <<exc, Frame, Outside>>

\* PPOAgent.__init__ reads these keys and no other
ConstructorKeys == InitKeys

\* lines 92-94: PPOAgent(self.ppo_config)
Construct ==
    /\ pc = "construct"
    /\ IF ConstructorKeys \subseteq ppo_config.keys
       THEN /\ pc' = "start"
            /\ buffer' = EmptyBuffer
            /\ policy' = FreshPolicy
            /\ UNCHANGED <<exc, rc, proc, now, prev_metrics, curr_metrics,
                           ppo_update_counter, tr, upd, step, loss, strategy>>
       ELSE Leaves("KeyError")
    /\ UNCHANGED Outside

\* lines 96-97: afl.setup, afl.start_fuzzing (Popen succeeds or fails)
StartFuzzing ==
    /\ pc = "start"
    /\ \E started \in BOOLEAN :
          /\ proc' = IF started THEN "Popen" ELSE "None"
          /\ fuzzer' = IF started THEN "alive" ELSE "none"
    /\ pc' = "alive"
    /\ UNCHANGED <<exc, rc, now, prev_metrics, curr_metrics, buffer,
                   ppo_update_counter, policy, tr, upd, step, loss, strategy>>
    /\ UNCHANGED <<Apart, args, ppo_config, faults, ckpt, sigs, sig_at>>

\* the fuzzer process exits by itself
FuzzerExit ==
    /\ fuzzer = "alive"
    /\ pc # "exit"
    /\ fuzzer' = IF now < args.duration THEN "died_early" ELSE "died_late"
    /\ UNCHANGED <<pc, exc, rc, Frame>>
    /\ UNCHANGED <<Apart, args, ppo_config, faults, ckpt, sigs, sig_at>>

\* a check that takes every fuzzer for alive
is_runningMut == TRUE

\* AFLWrapper.is_running
is_running == proc # "None" /\ fuzzer = "alive"

\* lines 99-108
AliveCheck ==
    /\ pc = "alive"
    /\ IF ~is_running
       THEN /\ pc' = "ret"
            /\ FrameDropped
       ELSE /\ pc' = "loop"
            /\ now' = 0
            /\ ppo_update_counter' = 0
            /\ prev_metrics' = <<>>
            /\ UNCHANGED <<proc, curr_metrics, buffer, policy, tr, upd, step,
                           loss, strategy>>
    /\ UNCHANGED <<exc, rc, Outside>>

----------------------------------------------------------------------------
(* The loop of run_ppo_enhanced *)

\* a loop that also ends once a snapshot shows coverage of 20 or more
LoopContinuesMut ==
    /\ now < args.duration
    /\ (prev_metrics = <<>> \/ prev_metrics[1].coverage_rate < 20)

\* line 111: the condition of the while
LoopContinues == now < args.duration

LoopTest ==
    /\ pc = "loop"
    /\ IF LoopContinues
       THEN /\ pc' = "sleep"
            /\ UNCHANGED Frame
       ELSE /\ pc' = "finally"
            /\ LoopLocalsDropped
            /\ UNCHANGED <<proc, now, buffer, policy>>
    /\ UNCHANGED <<exc, rc, Outside>>

\* line 112: time.sleep(update_interval)
Sleep ==
    /\ pc = "sleep"
    /\ now' = now + 1
    /\ pc' = "metrics"
    /\ UNCHANGED <<exc, rc, proc, prev_metrics, curr_metrics, buffer,
                   ppo_update_counter, policy, tr, upd, step, loss, strategy>>
    /\ UNCHANGED Outside

\* The fuzzer writes its statistics on its own schedule; a read finds the
\* latest ones.  Progress(f, t) is how far a fuzzer of kind f has come after
\* t intervals: at an even pace, not at all after the first interval (every
\* later read is stale), ever more slowly, or ever faster.
Progress(f, t) ==
    CASE f = "steady"  -> t
      [] f = "stalled" -> Min(t, 1)
      [] f = "slowing" -> (Min(t, MaxDuration + 2) * (2 * MaxDuration + 5 - Min(t, MaxDuration + 2))) \div 2
      [] OTHER         -> (t * (t + 1)) \div 2

Feeds == {"steady", "stalled", "slowing", "rising"}

\* the files a read at time t can find
Files(t) ==
    {SoundFile(Progress(feed, t))}
        \cup (IF faults < MaxFaults THEN DamagedFiles(Progress(feed, t)) ELSE {})

\* lines 115-116: curr_metrics = afl.get_metrics()
ReadMetrics ==
    /\ pc = "metrics"
    /\ \E file \in Files(now) :
          /\ faults' = IF IsDamaged(file) THEN faults + 1 ELSE faults
          /\ IF MetricsRaise(get_stats(file))
             THEN Caught("ValueError(stats)")
             ELSE /\ curr_metrics' = <<get_metrics(file, now)>>
                  /\ pc' = "decide"
                  /\ UNCHANGED <<exc, rc, proc, now, prev_metrics, buffer,
                                 ppo_update_counter, policy, tr, upd, step, loss,
                                 strategy>>
    /\ UNCHANGED <<Apart, args, ppo_config, fuzzer, ckpt, sigs, sig_at>>

StrategyNames == <<"bitflip", "byteflip", "arithmetic", "havoc", "splice">>

\* AFLWrapper.apply_mutation_strategy: names the strategy, or does nothing
apply_mutation_strategy(a) ==
    IF 0 <= a /\ a < Len(StrategyNames) THEN StrategyNames[a + 1] ELSE strategy

\* a sample range one too wide
AllActionsMut == 0..action_dim

\* what Categorical.sample() can return
AllActions == 0..(action_dim - 1)

\* the samples the runs of Spec draw: the two ends of that range
SampledActions == {0, action_dim - 1}

\* a done flag set one interval early
DoneEarlyMut == now >= args.duration - 1

\* a done flag that is never set
DoneMut == FALSE

\* line 133
Done == now >= args.duration

\* lines 119-133: state, action, strategy, reward, done
Decide ==
    /\ pc = "decide"
    /\ IF prev_metrics = <<>>
       THEN /\ pc' = "copy"
            /\ UNCHANGED <<exc, rc, Frame>>
       ELSE IF policy.nan
       THEN Caught("ValueError(nan)")
       ELSE \E a \in SampledActions :
              IF ~HasKey(ppo_config, "reward_weights")
              THEN Caught("KeyError")
              ELSE /\ strategy' = apply_mutation_strategy(a)
                   /\ tr' = [state    |-> get_state_vector(curr_metrics[1]),
                                action   |-> a,
                                reward   |-> compute_reward(ppo_config, prev_metrics[1],
                                                            curr_metrics[1]),
                                log_prob |-> policy.steps,
                                value    |-> policy.steps,
                             done     |-> Done]
                   /\ pc' = "store"
                   /\ step' = 0
                   /\ UNCHANGED <<exc, rc, upd, proc, now, prev_metrics,
                                  curr_metrics, buffer, ppo_update_counter,
                                  policy, loss>>
    /\ UNCHANGED Outside

\* the i-th value store_transition appends
TrField(i) ==
    CASE i = 1 -> tr.state
      [] i = 2 -> tr.action
      [] i = 3 -> tr.reward
      [] i = 4 -> tr.log_prob
      [] i = 5 -> tr.value
      [] OTHER -> tr.done

\* PPOAgent.store_transition, one append at a time (lines 136-141)
Store ==
    /\ pc = "store"
    /\ buffer' = [buffer EXCEPT ![BufferKey(step + 1)] = Append(@, TrField(step + 1))]
    /\ IF step + 1 = BufferKeys
       THEN pc' = "count" /\ step' = 0
       ELSE pc' = "store" /\ step' = step + 1
    /\ UNCHANGED <<exc, rc, proc, now, prev_metrics, curr_metrics,
                   ppo_update_counter, policy, tr, upd, loss, strategy>>
    /\ UNCHANGED Outside

\* the test of line 138 written with > for >=
UpdateDueMut(counter, cfg) == counter > cfg.update_interval

\* line 138
UpdateDue(counter, cfg) == counter >= cfg.update_interval

\* lines 137-139
Count ==
    /\ pc = "count"
    /\ IF ~HasKey(ppo_config, "update_interval")
       THEN Caught("KeyError")
       ELSE /\ ppo_update_counter' = ppo_update_counter + 1
            /\ IF UpdateDue(ppo_update_counter + 1, ppo_config)
               THEN pc' = "upd_check" /\ upd' = [NoUpd EXCEPT !.caller = "loop"]
               ELSE pc' = "copy" /\ upd' = upd
            /\ tr' = NoTr      \* the tick's values are not read again
            /\ UNCHANGED <<exc, rc, step, proc, now, prev_metrics, curr_metrics,
                           buffer, policy, loss, strategy>>
    /\ UNCHANGED Outside

\* a previous snapshot that is taken at the first tick and kept
CopyPrevMut ==
    /\ pc = "copy"
    /\ prev_metrics' = IF prev_metrics = <<>> THEN curr_metrics ELSE prev_metrics
    /\ pc' = "loop"
    /\ UNCHANGED <<exc, rc, proc, now, curr_metrics, buffer, ppo_update_counter,
                   policy, tr, upd, step, loss, strategy>>
    /\ UNCHANGED Outside

\* line 143: prev_metrics = curr_metrics.copy()
CopyPrev ==
    /\ pc = "copy"
    /\ prev_metrics' = curr_metrics
    /\ pc' = "loop"
    /\ UNCHANGED <<exc, rc, proc, now, curr_metrics, buffer, ppo_update_counter,
                   policy, tr, upd, step, loss, strategy>>
    /\ UNCHANGED Outside

----------------------------------------------------------------------------
(* PPOAgent.update *)

\* the guard written with <= for <
BelowBatchLeMut(buf, cfg) == Len(buf.states) <= cfg.batch_size

\* the guard written as a test for an empty buffer
BelowBatchMut(buf, cfg) == Len(buf.states) = 0

\* line 145: the guard of the early return
BelowBatch(buf, cfg) == Len(buf.states) < cfg.batch_size

\* lines 145-158: the guard, then the tensors, returns and advantages
UpdateCheck ==
    /\ pc = "upd_check"
    /\ IF ~HasKey(ppo_config, "batch_size")
       THEN Throw("KeyError")
       ELSE IF BelowBatch(buffer, ppo_config)
       THEN /\ pc' = "upd_ret"
            /\ upd' = [upd EXCEPT !.ret = ZeroLoss]
            /\ UNCHANGED <<exc, rc, proc, now, prev_metrics, curr_metrics, buffer,
                           ppo_update_counter, policy, tr, step, loss, strategy>>
       ELSE IF ~PreludeShapesOK(buffer)
       THEN Throw("RuntimeError(shape)")
       ELSE /\ pc' = "epoch"
            /\ UNCHANGED <<exc, rc, Frame>>
    /\ UNCHANGED Outside

\* the losses an epoch can compute on this buffer with these parameters
EpochLosses(buf, pol) ==
    IF pol.nan \/ AdvantagesNaN(buf)
    THEN {NaNLoss}
    ELSE {NaNLoss} \cup {[nan |-> FALSE, num |-> l, den |-> 1] : l \in FiniteLosses}

\* line 162: range(self.epochs)
LastEpoch(u, cfg) == u.ep + 1 >= cfg.epochs

\* lines 163-185: one epoch, forward pass to optimizer step.  Line 164 with
\* NaN parameters gives NaN probabilities; line 165 rejects them when the
\* distribution validates its arguments (the default, off under python -O),
\* and otherwise the epoch goes on and computes a NaN loss.
Epoch ==
    /\ pc = "epoch"
    /\ \/ /\ policy.nan
          /\ Throw("ValueError(nan)")
       \/ /\ ~EpochShapesOK(buffer)
          /\ Throw("ValueError(shape)")
       \/ /\ EpochShapesOK(buffer)
          /\ \E l \in EpochLosses(buffer, policy) :
                /\ policy' = [steps |-> policy.steps + 1,
                              nan   |-> l.nan /\ ~EmptyBatch(buffer),
                              mid   |-> ~LastEpoch(upd, ppo_config)]
                /\ upd' = [upd EXCEPT !.ep = @ + 1,
                                      !.total = @ + l.num,
                                      !.nan = @ \/ l.nan]
                /\ pc' = IF LastEpoch(upd, ppo_config) THEN "clear" ELSE "epoch"
                /\ UNCHANGED <<exc, rc, proc, now, prev_metrics, curr_metrics,
                               buffer, ppo_update_counter, tr, step, loss, strategy>>
    /\ UNCHANGED Outside

\* line 207, for the i-th key of the buffer
Cleared(buf, i) == [buf EXCEPT ![BufferKey(i)] = <<>>]

\* PPOAgent.clear_buffer, one key at a time (lines 188, 206-207), then line 190
Clear ==
    /\ pc = "clear"
    /\ buffer' = Cleared(buffer, step + 1)
    /\ IF step + 1 = BufferKeys
       THEN /\ pc' = "upd_ret"
            /\ step' = 0
            /\ upd' = [upd EXCEPT !.ret = MeanLoss(upd, ppo_config.epochs)]
       ELSE /\ pc' = "clear"
            /\ step' = step + 1
            /\ upd' = upd
    /\ UNCHANGED <<exc, rc, proc, now, prev_metrics, curr_metrics,
                   ppo_update_counter, policy, tr, loss, strategy>>
    /\ UNCHANGED Outside

\* update() returns: lines 139-141 in the loop, lines 157-158 in the finally
UpdateReturn ==
    /\ pc = "upd_ret"
    /\ loss' = upd.ret
    /\ upd' = NoUpd
    /\ IF upd.caller = "loop"
       THEN pc' = "copy" /\ ppo_update_counter' = 0
       ELSE pc' = "save" /\ ppo_update_counter' = ppo_update_counter
    /\ UNCHANGED <<exc, rc, proc, now, prev_metrics, curr_metrics, buffer,
                   policy, tr, step, strategy>>
    /\ UNCHANGED Outside

----------------------------------------------------------------------------
(* The finally block of run_ppo_enhanced and the return to main *)

\* line 156
FinalUpdateDue(buf) == Len(buf.states) > 0

\* lines 154-157
Finally ==
    /\ pc = "finally"
    /\ IF FinalUpdateDue(buffer)
       THEN pc' = "upd_check" /\ upd' = [NoUpd EXCEPT !.caller = "final"]
       ELSE pc' = "save" /\ upd' = upd
    /\ UNCHANGED <<exc, rc, proc, now, prev_metrics, curr_metrics, buffer,
                   ppo_update_counter, policy, tr, step, loss, strategy>>
    /\ UNCHANGED Outside

\* PPOAgent.save_model: what torch.save writes
Checkpoint(pol) == [writer |-> "campaign", params |-> pol]

\* lines 161-163: ppo.save_model
SaveModel ==
    /\ pc = "save"
    /\ ckpt' = Checkpoint(policy)
    /\ pc' = "stop"
    /\ UNCHANGED <<exc, rc, Frame>>
    /\ UNCHANGED <<Apart, args, ppo_config, fuzzer, faults, sigs, sig_at>>

\* line 165: afl.stop_fuzzing
StopFuzzing ==
    /\ pc = "stop"
    /\ IF proc = "None"
       THEN UNCHANGED <<proc, fuzzer>>
       ELSE /\ proc' = "None"
            /\ fuzzer' = IF fuzzer = "alive" THEN "killed" ELSE fuzzer
    /\ pc' = "export"
    /\ UNCHANGED <<exc, rc, now, prev_metrics, curr_metrics, buffer,
                   ppo_update_counter, policy, tr, upd, step, loss, strategy>>
    /\ UNCHANGED <<Apart, args, ppo_config, faults, ckpt, sigs, sig_at>>

\* lines 166-170: afl.export_results reads the metrics once more; then an
\* exception still in flight leaves the function, or `return results`
Export ==
    /\ pc = "export"
    /\ \E file \in Files(now) :
          /\ faults' = IF IsDamaged(file) THEN faults + 1 ELSE faults
          /\ IF MetricsRaise(get_stats(file))
             THEN Leaves("ValueError(stats)")
             ELSE IF exc # "none"
             THEN Leaves(exc)
             ELSE /\ pc' = "ret"
                  /\ FrameDropped
                  /\ UNCHANGED <<exc, rc>>
    /\ UNCHANGED <<Apart, args, ppo_config, fuzzer, ckpt, sigs, sig_at>>

\* main, line 273: whatever run_ppo_enhanced returned
MainResult == "0"

MainReturn ==
    /\ pc = "ret"
    /\ rc' = MainResult
    /\ pc' = "exit"
    /\ UNCHANGED <<exc, Frame, Outside>>

----------------------------------------------------------------------------
(* The interruption signal: a KeyboardInterrupt between any two steps *)

Region ==
    IF InTry THEN "loop" ELSE IF InFinally THEN "finally" ELSE "pre"

Interrupt ==
    /\ sigs < MaxSignals
    /\ pc \in PrePCs \cup TryPCs \cup FinallyPCs \cup UpdatePCs
    /\ sigs' = sigs + 1
    /\ sig_at' = Region
    /\ Throw("KeyboardInterrupt")
    /\ UNCHANGED <<Apart, args, ppo_config, fuzzer, faults, ckpt>>

----------------------------------------------------------------------------

Next ==
    \/ Main
    \/ Construct
    \/ StartFuzzing
    \/ FuzzerExit
    \/ AliveCheck
    \/ LoopTest
    \/ Sleep
    \/ ReadMetrics
    \/ Decide
    \/ Store
    \/ Count
    \/ CopyPrev
    \/ UpdateCheck
    \/ Epoch
    \/ Clear
    \/ UpdateReturn
    \/ Finally
    \/ SaveModel
    \/ StopFuzzing
    \/ Export
    \/ MainReturn
    \/ Interrupt

Spec == Init /\ [][Next]_vars

\* A longer campaign with a larger batch than Spec's, its configuration whole
LongConfigs ==
    { [keys |-> ConfigKeys, batch_size |-> MaxBatch + 1, update_interval |-> u,
       epochs |-> e, reward_weights |-> Weights] :
         u \in 1..MaxInterval, e \in 1..MaxEpochs }

InitLong == InitWith({MaxDuration + 1}, LongConfigs, {"steady"})

SpecLong == InitLong /\ [][Next]_vars

\* A campaign long enough to read SnapshotsFed snapshots, none consumed by
\* an update before the loop ends, from a fuzzer of any kind.
SeriesConfigs ==
    [keys : {ConfigKeys}, batch_size : {SnapshotsFed - 1},
     update_interval : {SnapshotsFed}, epochs : {1}, reward_weights : WeightSets]

InitSeries == InitWith({SnapshotsFed}, SeriesConfigs, Feeds)

SpecSeries == InitSeries /\ [][Next]_vars

----------------------------------------------------------------------------
(* PPOAgent methods called on their own *)

\* reversed(list)
Reverse(seq) == [i \in 1..Len(seq) |-> seq[Len(seq) + 1 - i]]

RECURSIVE Pow(_, _)
Pow(b, e) == IF e = 0 THEN 1 ELSE b * Pow(b, e - 1)

\* lines 196-201: the loop over zip(reversed(rewards), reversed(dones)),
\* pair i of n, R carried from pair to pair, each R put in front of the
\* list.  g is gamma as num/den; R is kept as its numerator over scale.
RECURSIVE ReturnsLoop(_, _, _, _, _, _, _, _)
ReturnsLoop(rr, dd, g, scale, n, i, R, returns) ==
    IF i > n
    THEN returns
    ELSE LET R0 == IF dd[i] THEN 0 ELSE R
             R1 == rr[i] * scale + (g.num * R0) \div g.den
         IN  ReturnsLoop(rr, dd, g, scale, n, i + 1, R1, <<R1>> \o returns)

\* the pass made from the first pair to the last
compute_returnsMut(buf, g) ==
    LET n == Min(Len(buf.rewards), Len(buf.dones))
    IN  ReturnsLoop(buf.rewards, buf.dones, g, Pow(g.den, n), n, 1, 0, <<>>)

\* PPOAgent._compute_returns: numerators over g.den ^ (length of the result)
compute_returns(buf, g) ==
    LET n == Min(Len(buf.rewards), Len(buf.dones))
    IN  ReturnsLoop(Reverse(buf.rewards), Reverse(buf.dones), g,
                    Pow(g.den, n), n, 1, 0, <<>>)

\* self.gamma = config['gamma'] (line 73), as num/den
Gammas == {[num |-> 1, den |-> 2], [num |-> 9, den |-> 10]}

AgentConfigs ==
    [keys : {ConfigKeys}, batch_size : {1}, update_interval : {1}, epochs : {1},
     reward_weights : WeightSets, gamma : Gammas]

\* what the rewards list can hold
RewardValues == {-1, 0, 1, 2}

RECURSIVE SeqsOf(_, _)
SeqsOf(S, n) ==
    IF n = 0 THEN {<<>>}
    ELSE {Append(q, x) : q \in SeqsOf(S, n - 1), x \in S}

\* buffers as update() finds them: rewards and dones of one length
ReturnBuffers ==
    UNION { {[EmptyBuffer EXCEPT !.rewards = r, !.dones = d] :
                r \in SeqsOf(RewardValues, n), d \in SeqsOf(BOOLEAN, n)} :
            n \in 0..MaxLen }

\* a snapshot as get_metrics builds it (lines 135-143)
Snapshot(c, k, s, u) ==
    [coverage_rate |-> c, crash_count |-> k, exec_speed |-> s, queue_size |-> 7,
     unique_paths |-> u, pending_paths |-> 5, runtime |-> 1]

Snapshots ==
    {Snapshot(c, k, s, u) : c \in {0, 5}, k \in {0, 2}, s \in {0, 1000},
                            u \in {0, 100}}

StateFields ==
    <<"coverage_rate", "crash_count", "exec_speed", "queue_size", "unique_paths">>

\* snapshots with one field below zero
NegativeSnapshots ==
    {[Snapshot(5, 2, 1000, 100) EXCEPT ![StateFields[i]] = -3] : i \in 1..state_dim}

\* snapshots with one field absent
PartialSnapshots ==
    {[k \in DOMAIN Snapshot(5, 2, 1000, 100) \ {StateFields[i]} |->
          Snapshot(5, 2, 1000, 100)[k]] : i \in 1..state_dim}

\* a PPOAgent has been constructed; its buffer, a pair of snapshots, or one
\* snapshot that lacks a field is given
InitAgent ==
    /\ pc = "agent"
    /\ exc = "none"
    /\ rc = "running"
    /\ args = [target_exists |-> TRUE, duration |-> 1]
    /\ ppo_config \in AgentConfigs
    /\ proc = "None"
    /\ fuzzer = "none"
    /\ now = 0
    /\ faults = 0
    /\ \/ /\ buffer \in ReturnBuffers
          /\ prev_metrics = <<>>
          /\ curr_metrics = <<>>
       \/ /\ buffer = EmptyBuffer
          /\ prev_metrics \in {<<m>> : m \in Snapshots}
          /\ curr_metrics \in {<<m>> : m \in Snapshots \cup NegativeSnapshots}
       \/ /\ buffer = EmptyBuffer
          /\ prev_metrics = <<>>
          /\ curr_metrics \in {<<m>> : m \in PartialSnapshots}
    /\ ppo_update_counter = 0
    /\ policy = FreshPolicy
    /\ tr = NoTr
    /\ upd = NoUpd
    /\ step = 0
    /\ loss = NoLoss
    /\ ckpt = LastGood
    /\ sigs = 0
    /\ sig_at = "none"
    /\ strategy = "none"
    /\ feed = "steady"
    /\ analyzer = NoAnalyzer
    /\ call = NoCall

\* ppo._compute_returns()
CallComputeReturns ==
    /\ pc = "agent"
    /\ call' = [fn |-> "_compute_returns",
                out |-> compute_returns(buffer, ppo_config.gamma)]
    /\ UNCHANGED <<pc, exc, rc, Frame, args, ppo_config, fuzzer, faults, ckpt,
                   sigs, sig_at, feed, analyzer>>

\* ppo.compute_reward(prev_metrics, curr_metrics)
CallComputeReward ==
    /\ pc = "agent"
    /\ prev_metrics # <<>>
    /\ call' = [fn |-> "compute_reward",
                out |-> compute_reward(ppo_config, prev_metrics[1], curr_metrics[1])]
    /\ UNCHANGED <<pc, exc, rc, Frame, args, ppo_config, fuzzer, faults, ckpt,
                   sigs, sig_at, feed, analyzer>>

\* ppo.get_state_vector(curr_metrics)
CallGetStateVector ==
    /\ pc = "agent"
    /\ curr_metrics # <<>>
    /\ call' = [fn |-> "get_state_vector",
                out |-> get_state_vector(curr_metrics[1])]
    /\ UNCHANGED <<pc, exc, rc, Frame, args, ppo_config, fuzzer, faults, ckpt,
                   sigs, sig_at, feed, analyzer>>

\* a select_action that takes an optimizer step while it selects
CallSelectActionMut ==
    /\ pc = "agent"
    /\ curr_metrics # <<>>
    /\ ~policy.nan
    /\ \E a \in AllActions :
          call' = [fn |-> "select_action", out |-> <<a, policy.steps, policy.steps>>]
    /\ policy' = [policy EXCEPT !.steps = @ + 1]
    /\ UNCHANGED <<pc, exc, rc, proc, now, prev_metrics, curr_metrics, buffer,
                   ppo_update_counter, tr, upd, step, loss, strategy>>
    /\ UNCHANGED <<args, ppo_config, fuzzer, faults, ckpt, sigs, sig_at, feed,
                   analyzer>>

\* ppo.select_action(state): the sample, its log probability, the value
CallSelectAction ==
    /\ pc = "agent"
    /\ curr_metrics # <<>>
    /\ ~policy.nan
    /\ \E a \in AllActions :
          call' = [fn |-> "select_action", out |-> <<a, policy.steps, policy.steps>>]
    /\ UNCHANGED <<pc, exc, rc, Frame, args, ppo_config, fuzzer, faults, ckpt,
                   sigs, sig_at, feed, analyzer>>

\* afl.apply_mutation_strategy(action), action as select_action returned it
CallApplyMutationStrategy ==
    /\ pc = "agent"
    /\ call.fn = "select_action"
    /\ strategy' = apply_mutation_strategy(call.out[1])
    /\ call' = [fn |-> "apply_mutation_strategy", out |-> <<call.out[1]>>]
    /\ UNCHANGED <<pc, exc, rc, proc, now, prev_metrics, curr_metrics, buffer,
                   ppo_update_counter, policy, tr, upd, step, loss>>
    /\ UNCHANGED <<args, ppo_config, fuzzer, faults, ckpt, sigs, sig_at, feed,
                   analyzer>>

NextAgent ==
    \/ CallComputeReturns
    \/ CallComputeReward
    \/ CallGetStateVector
    \/ CallSelectAction
    \/ CallApplyMutationStrategy

SpecAgent == InitAgent /\ [][NextAgent]_vars

\* The two ways the agent's methods run: inside a campaign of
\* run_ppo_enhanced, or called by a caller of its own.
MethodConfigs ==
    {c \in Configs : c.keys = ConfigKeys /\ c.batch_size = MaxBatch /\ c.epochs = 1}

InitMethods == InitWith({MaxDuration}, MethodConfigs, {"steady"}) \/ InitAgent

NextMethods == Next \/ NextAgent

SpecMethods == InitMethods /\ [][NextMethods]_vars

----------------------------------------------------------------------------
(* FeedbackAnalyzer called on its own *)

\* lines 51-67 of _calculate_reward: the four terms, in thousandths
RewardTerms(prev, curr) ==
    (curr.coverage_rate - prev.coverage_rate) * 1000
      + (curr.crash_count - prev.crash_count) * 10000
      + curr.exec_speed
      + (curr.unique_paths - prev.unique_paths) * 5

\* a penalty taken whenever coverage stands still
calculate_rewardMut(prev, curr) ==
    RewardTerms(prev, curr)
      - (IF curr.coverage_rate - prev.coverage_rate = 0 THEN 100 ELSE 0)

\* FeedbackAnalyzer._calculate_reward, in thousandths
calculate_reward(prev, curr) ==
    LET coverage_delta == curr.coverage_rate - prev.coverage_rate
        path_delta     == curr.unique_paths - prev.unique_paths
    IN  RewardTerms(prev, curr)
          - (IF coverage_delta = 0 /\ path_delta = 0 THEN 100 ELSE 0)

\* FeedbackAnalyzer._check_termination
check_termination(m) == FALSE

\* an analyze that returns on the first call without keeping the snapshot
analyzeMut(self, current_metrics) ==
    IF self.previous_metrics = <<>>
    THEN [self |-> self, out |-> <<current_metrics, 0, FALSE>>, calls |-> <<>>]
    ELSE [self  |-> [self EXCEPT !.previous_metrics = <<current_metrics>>],
          out   |-> <<current_metrics,
                      calculate_reward(self.previous_metrics[1], current_metrics),
                      check_termination(current_metrics)>>,
          calls |-> <<"_calculate_reward", "_check_termination">>]

\* FeedbackAnalyzer.analyze: the instance afterwards, the tuple returned,
\* and the methods it called on the way
analyze(self, current_metrics) ==
    IF self.previous_metrics = <<>>
    THEN [self  |-> [self EXCEPT !.previous_metrics = <<current_metrics>>],
          out   |-> <<current_metrics, 0, FALSE>>,
          calls |-> <<>>]
    ELSE [self  |-> [self EXCEPT !.previous_metrics = <<current_metrics>>],
          out   |-> <<current_metrics,
                      calculate_reward(self.previous_metrics[1], current_metrics),
                      check_termination(current_metrics)>>,
          calls |-> <<"_calculate_reward", "_check_termination">>]

\* a FeedbackAnalyzer has been constructed
InitAnalyzer ==
    /\ pc = "analyzer"
    /\ exc = "none"
    /\ rc = "running"
    /\ args = [target_exists |-> TRUE, duration |-> 1]
    /\ ppo_config \in {c \in AgentConfigs : c.reward_weights = Weights /\ c.gamma.den = 2}
    /\ proc = "None"
    /\ fuzzer = "none"
    /\ now = 0
    /\ faults = 0
    /\ buffer = EmptyBuffer
    /\ prev_metrics = <<>>
    /\ curr_metrics = <<>>
    /\ ppo_update_counter = 0
    /\ policy = FreshPolicy
    /\ tr = NoTr
    /\ upd = NoUpd
    /\ step = 0
    /\ loss = NoLoss
    /\ ckpt = LastGood
    /\ sigs = 0
    /\ sig_at = "none"
    /\ strategy = "none"
    /\ feed = "steady"
    /\ analyzer = NoAnalyzer
    /\ call = NoCall

\* analyzer.analyze(current_metrics)
Analyze ==
    /\ pc = "analyzer"
    /\ \E current_metrics \in Snapshots :
          LET r == analyze(analyzer, current_metrics)
          IN  /\ analyzer' = r.self
              /\ call' = [fn |-> "analyze", arg |-> current_metrics,
                          out |-> r.out, calls |-> r.calls]
    /\ UNCHANGED <<pc, exc, rc, Frame, args, ppo_config, fuzzer, faults, ckpt,
                   sigs, sig_at, feed>>

\* analyzer.reset()
Reset ==
    /\ pc = "analyzer"
    /\ analyzer' = [previous_metrics |-> <<>>, was_reset |-> TRUE]
    /\ call' = [fn |-> "reset", arg |-> <<>>, out |-> <<>>, calls |-> <<>>]
    /\ UNCHANGED <<pc, exc, rc, Frame, args, ppo_config, fuzzer, faults, ckpt,
                   sigs, sig_at, feed>>

NextAnalyzer == Analyze \/ Reset

SpecAnalyzer == InitAnalyzer /\ [][NextAnalyzer]_vars

\* The two ways a reward is computed: a campaign of run_ppo_enhanced, or
\* the analyzer driven by a caller of its own.
InitRewards == InitSeries \/ InitAnalyzer

NextRewards == Next \/ NextAnalyzer

SpecRewards == InitRewards /\ [][NextRewards]_vars

----------------------------------------------------------------------------
(* Claims C1 - C10 *)

\* C1: when the loop has stopped with a non-empty buffer, the final update
\* consumes it whatever batch_size is: the buffer is empty when the
\* checkpoint is about to be saved.
C1_FinalUpdateFlushes ==
    (pc = "save" /\ sigs = 0 /\ ppo_config.keys = ConfigKeys)
        => Len(buffer.states) = 0

C3_UpdateEmptiesBuffer ==
    [][ ( /\ pc = "epoch"
          /\ ppo_config.keys = ConfigKeys
          /\ EpochShapesOK(buffer)
          /\ sigs = 0
          /\ sigs' = 0 )
        => pc' \in {"epoch", "clear"} ]_vars

\* C4: after a signal that arrived in the loop (and no numerical failure),
\* control has not returned before the checkpoint was saved, and the saved
\* parameters are not those of a half-done update.
C4_InterruptFlushesAndSaves ==
    (pc = "exit" /\ sig_at = "loop" /\ sigs = 1 /\ exc # "ValueError(nan)")
        => (ckpt.writer = "campaign" /\ ~ckpt.params.mid)

\* C5: at the loop test, a fuzzer process that has exited ends the loop:
\* no further tick is begun.
C5_DeadFuzzerStopsLoop ==
    [][ (pc = "loop" /\ fuzzer # "alive") => pc' # "sleep" ]_vars

\* C6: main() does not return 0 when the fuzzer was not alive at the start
\* or died before the duration had elapsed.
C6_NonZeroOnFuzzerFailure ==
    rc = "0" => fuzzer \notin {"none", "died_early"}

\* C7: a failed read (file missing or empty) skips the tick: no transition
\* is built from it, and the default snapshot never becomes the previous one.
C7_FailedReadSkipsTick ==
    /\ pc = "store" => curr_metrics # <<DefaultMetrics>>
    /\ prev_metrics # <<DefaultMetrics>>

\* C8: a read of the statistics in the loop always goes on with the tick:
\* get_metrics raises nothing and the loop is not left.
C8_UnparsableFieldNotPropagated ==
    [][ (pc = "metrics" /\ sigs' = sigs /\ pc' # pc)
        => (pc' = "decide" /\ exc' = "none") ]_vars

\* C9: after a NaN loss no further tick is begun and no checkpoint is
\* written: the checkpoint on disk never holds NaN parameters.
C9_NaNIsFatal ==
    (sigs = 0 /\ ppo_config.keys = ConfigKeys) =>
        /\ ~ckpt.params.nan
        /\ pc \in {"sleep", "metrics", "decide", "store", "count"} => ~policy.nan

\* C10: with a required key missing from the configuration the fuzzer
\* process is never started.
C10_ConfigErrorBeforeStart ==
    ppo_config.keys # ConfigKeys => fuzzer = "none"

----------------------------------------------------------------------------
(* Claims C11 - C20 *)

\* C11: at the end of a tick, in a run with sound reads, no signal and no
\* update that ran so far, the first tick has stored nothing and tick t > 1
\* has appended one transition to each of the six lists: the i-th transition
\* holds the state of the snapshot of tick i+1, the reward of the snapshots
\* of ticks (i, i+1) and done = (elapsed >= duration) at tick i+1.
C11_OneTransitionPerTick ==
    LET snap(t) == get_metrics(SoundFile(Progress(feed, t)), t)
        k       == IF now = 0 THEN 0 ELSE now - 1
    IN  ( /\ pc \in {"copy", "loop"}
          /\ sigs = 0 /\ faults = 0 /\ exc = "none"
          /\ policy.steps = 0
          /\ ppo_config.keys = ConfigKeys )
        => /\ \A j \in 1..BufferKeys : Len(buffer[BufferKey(j)]) = k
           /\ \A i \in 1..k :
                 /\ buffer.states[i] = get_state_vector(snap(i + 1))
                 /\ buffer.actions[i] \in AllActions
                 /\ buffer.rewards[i] =
                        compute_reward(ppo_config, snap(i), snap(i + 1))
                 /\ buffer.dones[i] = (i + 1 >= args.duration)

\* the fourth tick has ended with the transitions of ticks 2, 3 and 4 in
\* the buffer, the last one flagged done
C11_Witness ==
    /\ pc = "loop"
    /\ now = MaxDuration + 1
    /\ sigs = 0 /\ faults = 0 /\ exc = "none"
    /\ policy.steps = 0
    /\ Len(buffer.dones) = MaxDuration
    /\ buffer.dones[MaxDuration]
    /\ ~buffer.dones[1]

\* C12: the counter goes up only at line 137, by one, on a tick that has
\* stored a transition; update() is called in the loop exactly when the
\* counter has then reached update_interval; the counter is 0 right after
\* the call, whatever the call did; so at the end of every tick
\* 0 <= counter < update_interval.
C12_UpdateCounter ==
    /\ []( (pc \in {"copy", "loop"} /\ HasKey(ppo_config, "update_interval"))
            => (0 <= ppo_update_counter
                /\ ppo_update_counter < ppo_config.update_interval) )
    /\ [][ /\ ppo_update_counter' > ppo_update_counter
              => (pc = "count" /\ ppo_update_counter' = ppo_update_counter + 1)
           /\ ( /\ pc = "count" /\ pc' # pc /\ sigs' = sigs
                /\ HasKey(ppo_config, "update_interval") )
              => /\ Len(buffer.dones) > 0
                 /\ IF ppo_update_counter + 1 >= ppo_config.update_interval
                    THEN pc' = "upd_check" /\ upd'.caller = "loop"
                    ELSE pc' = "copy"
           /\ (pc = "upd_ret" /\ upd.caller = "loop" /\ pc' # pc /\ sigs' = sigs)
              => (pc' = "copy" /\ ppo_update_counter' = 0) ]_vars

\* an in-loop call that was a no-op has returned and the counter is back at 0
C12_Witness ==
    /\ pc = "copy"
    /\ ppo_update_counter = 0
    /\ loss = ZeroLoss
    /\ Len(buffer.states) > 0
    /\ sigs = 0

\* C13: the parameters change (an epoch's optimizer step) only while the
\* buffer holds at least batch_size transitions, a transition being one
\* entry in each of the six lists; and outside clear_buffer nothing is
\* taken out of the lists or reordered.
C13_UpdateOnlyAtThreshold ==
    [][ /\ (pc = "epoch" /\ policy' # policy /\ ppo_config.keys = ConfigKeys)
              => \A j \in 1..BufferKeys :
                     Len(buffer[BufferKey(j)]) >= ppo_config.batch_size
        /\ (pc \in TryPCs \cup {"upd_check", "epoch", "upd_ret"} /\ pc' # "exit")
              => \A j \in 1..BufferKeys :
                     /\ Len(buffer'[BufferKey(j)]) >= Len(buffer[BufferKey(j)])
                     /\ SubSeq(buffer'[BufferKey(j)], 1, Len(buffer[BufferKey(j)]))
                            = buffer[BufferKey(j)] ]_vars

\* C14: a transition takes part in the gradient steps of one update call
\* only: when a call takes its first step (on finite parameters), the
\* parameters are not those left by an earlier call that stepped on the
\* buffer and never cleared it.
C14_ConsumedExactlyOnce ==
    [][ ( /\ pc = "epoch"
          /\ upd.ep = 0
          /\ pc' \in {"epoch", "clear"}
          /\ policy'.steps = policy.steps + 1
          /\ ~policy.nan
          /\ ppo_config.keys = ConfigKeys )
        => ~policy.mid ]_vars

\* C15: _compute_returns gives, for every rewards/dones pair of one length
\* n, a list of length n whose i-th entry is the discounted sum
\* rewards[i] + gamma*rewards[i+1] + ... up to and including the first
\* index >= i whose done flag is set (or the end); rewards [1,1,1] with
\* gamma 1/2 and dones [F,F,T] give [1.75, 1.5, 1].
C15_ReturnsRecursion ==
    LET g    == ppo_config.gamma
        r    == buffer.rewards
        d    == buffer.dones
        n    == Len(r)
        last(i) == IF \E j \in i..n : d[j]
                   THEN CHOOSE j \in i..n : d[j] /\ \A m \in i..(j - 1) : ~d[m]
                   ELSE n
        RECURSIVE sum(_, _)
        sum(i, j) == IF j > last(i) THEN 0
                     ELSE r[j] * Pow(g.num, j - i) * Pow(g.den, n - (j - i))
                            + sum(i, j + 1)
    IN  call.fn = "_compute_returns"
        => /\ Len(call.out) = n
           /\ \A i \in 1..n : call.out[i] = sum(i, i)
           /\ ( r = <<1, 1, 1>> /\ d = <<FALSE, FALSE, TRUE>>
                /\ g = [num |-> 1, den |-> 2] )
              => call.out = <<14, 12, 8>>

\* the worked example has been computed: 14/8, 12/8, 8/8
C15_Witness ==
    /\ call.fn = "_compute_returns"
    /\ buffer.rewards = <<1, 1, 1>>
    /\ buffer.dones = <<FALSE, FALSE, TRUE>>
    /\ ppo_config.gamma = [num |-> 1, den |-> 2]
    /\ call.out = <<14, 12, 8>>

\* C16: compute_reward(prev, curr) is w_cov * (coverage delta) + w_crash *
\* (crash delta) + w_speed * exec_speed/1000 + w_path * (path delta)/100,
\* and with coverage_rate of curr raised by 5 it is larger by 5 * w_cov
\* (rewards are numerators over 1000).
C16_RewardIsWeightedSum ==
    LET w == ppo_config.reward_weights
        p == prev_metrics[1]
        c == curr_metrics[1]
    IN  call.fn = "compute_reward"
        => /\ call.out = 1000 * w.coverage_increase * (c.coverage_rate - p.coverage_rate)
                          + 1000 * w.unique_crash * (c.crash_count - p.crash_count)
                          + w.execution_speed * c.exec_speed
                          + 10 * w.path_diversity * (c.unique_paths - p.unique_paths)
           /\ compute_reward(ppo_config, p, [c EXCEPT !.coverage_rate = @ + 5])
                 = call.out + 5 * w.coverage_increase * 1000

\* a reward has been computed for a pair whose coverage and paths went up
\* and whose crash count went down, with weights other than 1
C16_Witness ==
    /\ call.fn = "compute_reward"
    /\ ppo_config.reward_weights.coverage_increase = 2
    /\ prev_metrics[1].coverage_rate = 0 /\ curr_metrics[1].coverage_rate = 5
    /\ prev_metrics[1].crash_count = 2 /\ curr_metrics[1].crash_count = 0
    /\ prev_metrics[1].unique_paths = 0 /\ curr_metrics[1].unique_paths = 100
    /\ curr_metrics[1].exec_speed = 1000
    /\ call.out = 10000 + 3000 + 5000

\* C17: when five snapshots whose coverage_rate and crash_count go up from
\* each to the next have been read (sound reads, no signal, non-negative
\* weights), the four rewards stored are in non-decreasing order.
C17_RewardsMonotone ==
    LET snap(t) == get_metrics(SoundFile(Progress(feed, t)), t)
        w       == ppo_config.reward_weights
    IN  ( /\ Len(buffer.rewards) = SnapshotsFed - 1
          /\ faults = 0 /\ sigs = 0
          /\ \A t \in 1..(SnapshotsFed - 1) :
                /\ snap(t).coverage_rate < snap(t + 1).coverage_rate
                /\ snap(t).crash_count < snap(t + 1).crash_count
          /\ w.coverage_increase >= 0 /\ w.unique_crash >= 0
          /\ w.execution_speed >= 0 /\ w.path_diversity >= 0 )
        => \A i \in 1..(SnapshotsFed - 2) : buffer.rewards[i] <= buffer.rewards[i + 1]

\* C17, amended: the four rewards are in non-decreasing order when, in
\* addition, the steps by which coverage_rate, crash_count and unique_paths
\* go up do not shrink from one pair to the next and exec_speed does not
\* fall.
C17_RewardsMonotoneAmended ==
    LET snap(t) == get_metrics(SoundFile(Progress(feed, t)), t)
        w       == ppo_config.reward_weights
        up(f, t) == snap(t + 1)[f] - snap(t)[f]
    IN  ( /\ Len(buffer.rewards) = SnapshotsFed - 1
          /\ faults = 0 /\ sigs = 0
          /\ \A t \in 1..(SnapshotsFed - 1) :
                /\ snap(t).coverage_rate < snap(t + 1).coverage_rate
                /\ snap(t).crash_count < snap(t + 1).crash_count
          /\ \A t \in 1..(SnapshotsFed - 2) :
                /\ \A f \in {"coverage_rate", "crash_count", "unique_paths"} :
                      up(f, t) <= up(f, t + 1)
                /\ snap(t + 1).exec_speed <= snap(t + 2).exec_speed
          /\ w.coverage_increase >= 0 /\ w.unique_crash >= 0
          /\ w.execution_speed >= 0 /\ w.path_diversity >= 0 )
        => \A i \in 1..(SnapshotsFed - 2) : buffer.rewards[i] <= buffer.rewards[i + 1]

\* five snapshots of a fuzzer that finds more at every interval have been
\* read, and the last reward stored is larger than the first
C17_Witness ==
    /\ feed = "rising"
    /\ pc = "loop"
    /\ faults = 0 /\ sigs = 0
    /\ Len(buffer.rewards) = SnapshotsFed - 1
    /\ buffer.rewards[1] < buffer.rewards[SnapshotsFed - 1]

\* C18: the first analyze call on an analyzer, after construction and
\* after reset(), returns (metrics, 0.0, False) without calling
\* _calculate_reward or _check_termination and keeps the snapshot as the
\* previous one; inside the control loop, as long as no previous snapshot
\* is held, no reward has been computed and no transition stored.
C18_FirstObservation ==
    /\ [](InTry /\ prev_metrics = <<>> => buffer = EmptyBuffer /\ tr = NoTr)
    /\ [][ (pc = "analyzer" /\ analyzer.previous_metrics = <<>>
             /\ call'.fn = "analyze")
           => /\ call'.out = <<call'.arg, 0, FALSE>>
              /\ call'.calls = <<>>
              /\ analyzer'.previous_metrics = <<call'.arg>> ]_vars

\* an analyzer that was used and then reset has answered its first call
\* with reward 0 for a snapshot that is not all zero
C18_Witness ==
    /\ pc = "analyzer"
    /\ analyzer.was_reset
    /\ call.fn = "analyze"
    /\ call.calls = <<>>
    /\ call.out = <<call.arg, 0, FALSE>>
    /\ call.arg.coverage_rate > 0
    /\ analyzer.previous_metrics = <<call.arg>>

\* C19: the campaign never calls the analyzer, and the reward of every
\* transition it builds is the weighted sum of the four terms with nothing
\* taken off, also when coverage and paths both stand still; the analyzer's
\* own reward is its four terms less 0.1 when both deltas are zero and the
\* four terms alone otherwise.
C19_PenaltyNotInTraining ==
    /\ [](pc \notin {"analyzer", "agent"} => analyzer = NoAnalyzer /\ call = NoCall)
    /\ [](pc = "store" =>
            LET w == ppo_config.reward_weights
                p == prev_metrics[1]
                c == curr_metrics[1]
            IN  tr.reward = w.coverage_increase * (c.coverage_rate - p.coverage_rate) * 1000
                              + w.unique_crash * (c.crash_count - p.crash_count) * 1000
                              + w.execution_speed * c.exec_speed
                              + w.path_diversity * (c.unique_paths - p.unique_paths) * 10)
    /\ [][ (pc = "analyzer" /\ analyzer.previous_metrics # <<>>
             /\ call'.fn = "analyze")
           => LET p == analyzer.previous_metrics[1]
                  c == call'.arg
                  stagnant == c.coverage_rate = p.coverage_rate
                                /\ c.unique_paths = p.unique_paths
              IN  /\ stagnant => call'.out[2] = RewardTerms(p, c) - 100
                  /\ ~stagnant => call'.out[2] = RewardTerms(p, c) ]_vars

\* a transition is about to be stored for a tick at which neither coverage
\* nor paths moved, and its reward is the speed term alone
C19_Witness ==
    /\ pc = "store"
    /\ feed = "stalled"
    /\ faults = 0
    /\ curr_metrics[1].coverage_rate = prev_metrics[1].coverage_rate
    /\ curr_metrics[1].unique_paths = prev_metrics[1].unique_paths
    /\ curr_metrics[1].coverage_rate > 0
    /\ tr.reward = ppo_config.reward_weights.execution_speed * curr_metrics[1].exec_speed
    /\ tr.reward > 0

\* the analyzer has rewarded a pair of snapshots with equal coverage and
\* paths, and the reward is 0.1 under its four terms
C19_WitnessAnalyzer ==
    /\ pc = "analyzer"
    /\ call.fn = "analyze"
    /\ call.calls # <<>>
    /\ call.out[2] = call.arg.exec_speed - 100

\* C20: get_state_vector returns a vector for every snapshot, and a
\* component whose field in the snapshot is negative is 0.
C20_NegativesClamped ==
    call.fn = "get_state_vector" =>
        /\ Len(call.out) = state_dim
        /\ \A i \in 1..state_dim :
               curr_metrics[1][StateFields[i]] < 0 => call.out[i] = 0

----------------------------------------------------------------------------
(* Claims C21 - C30 *)

\* the vector the specification prescribes for a snapshot m
C21_Vector(m) ==
    LET field(k) == IF k \in DOMAIN m THEN m[k] ELSE 0
    IN  << 10000 * field("coverage_rate"), 100 * field("crash_count"),
           10 * field("exec_speed"), 10 * field("queue_size"),
           field("unique_paths") >>

\* C21: get_state_vector returns the five components coverage_rate,
\* crash_count/100, exec_speed/1000, queue_size/1000, unique_paths/10000 in
\* that order (numerators over 10000), with 0 for a field the snapshot
\* lacks; the call leaves buffer, model and configuration as they were; in
\* the loop the vector built for the tick is the one appended to
\* buffer['states'], and a stored vector is never rewritten before the
\* update reads it.
C21_StateVector ==
    /\ [](call.fn = "get_state_vector"
            => Len(call.out) = state_dim /\ call.out = C21_Vector(curr_metrics[1]))
    /\ [][call'.fn = "get_state_vector"
            => buffer' = buffer /\ policy' = policy /\ ppo_config' = ppo_config]_vars
    /\ [](pc \in {"store", "count"} => tr.state = C21_Vector(curr_metrics[1]))
    /\ [](pc = "count" => buffer.states[Len(buffer.states)] = tr.state)
    /\ [][\A i \in 1..Len(buffer.states) :
              i <= Len(buffer'.states) => buffer'.states[i] = buffer.states[i]]_vars

\* the vector of a snapshot without queue_size has been returned: 0 in the
\* fourth place, the other fields normalised
C21_Witness ==
    /\ call.fn = "get_state_vector"
    /\ "queue_size" \notin DOMAIN curr_metrics[1]
    /\ call.out = <<50000, 200, 10000, 0, 100>>

\* C22: every action select_action returns, every action held by a
\* transition or by the buffer, and every action handed to
\* apply_mutation_strategy is an integer in 0..4; apply_mutation_strategy
\* names one strategy for each of them, a different one for each.
C22_ActionsInRange ==
    /\ call.fn = "select_action" => call.out[1] \in 0..4
    /\ pc \in {"store", "count"}
          => tr.action \in 0..4 /\ strategy = StrategyNames[tr.action + 1]
    /\ \A i \in 1..Len(buffer.actions) : buffer.actions[i] \in 0..4
    /\ call.fn = "apply_mutation_strategy"
          => /\ call.out[1] \in 0..4
             /\ strategy = CASE call.out[1] = 0 -> "bitflip"
                              [] call.out[1] = 1 -> "byteflip"
                              [] call.out[1] = 2 -> "arithmetic"
                              [] call.out[1] = 3 -> "havoc"
                              [] OTHER           -> "splice"
    /\ \A a, b \in 0..4 :
          a # b => apply_mutation_strategy(a) # apply_mutation_strategy(b)

\* action 2 has been handed to apply_mutation_strategy and named
C22_Witness ==
    /\ call.fn = "apply_mutation_strategy"
    /\ call.out = <<2>>
    /\ strategy = "arithmetic"

C24_NoPartialBuffer ==
    (pc \in {"upd_check", "epoch"} /\ ppo_config.keys = ConfigKeys) =>
        \A i, j \in 1..BufferKeys :
            Len(buffer[BufferKey(i)]) = Len(buffer[BufferKey(j)])

\* C25: the loop is entered only from a check that found the fuzzer
\* process alive; when the check after start_fuzzing finds no process or a
\* process that has exited, run_ppo_enhanced is left at once, with no tick
\* made, no transition stored, no update applied and the checkpoint file
\* untouched, then and afterwards.
C25_NoLoopWithoutFuzzer ==
    /\ [][(pc = "alive" /\ pc' = "loop") => (proc = "Popen" /\ fuzzer = "alive")]_vars
    /\ [][(pc = "alive" /\ (proc = "None" \/ fuzzer # "alive"))
            => ( /\ pc' \in {"ret", "exit"}
                 /\ now = 0 /\ buffer = EmptyBuffer /\ policy = FreshPolicy
                 /\ ckpt = LastGood /\ ckpt' = ckpt )]_vars
    /\ [][(pc \in {"ret", "exit"}) => (pc' \in {"ret", "exit"} /\ ckpt' = ckpt)]_vars

\* start_fuzzing could not start the process, and run_ppo_enhanced has
\* returned with the checkpoint file as it was
C25_Witness ==
    /\ pc = "ret"
    /\ args.target_exists
    /\ fuzzer = "none"
    /\ sigs = 0
    /\ ckpt = LastGood

\* C26: analyze never returns done = True, whatever the snapshots; and at
\* the head of the loop the next tick is started exactly when the elapsed
\* time is below the duration, whatever the telemetry read so far (a
\* fuzzer whose coverage has stopped growing included).
C26_TimeBoundOnly ==
    /\ [](call.fn = "analyze" => call.out[3] = FALSE)
    /\ [](\A m \in Snapshots \cup NegativeSnapshots : ~check_termination(m))
    /\ [][(pc = "loop" /\ pc' # "loop" /\ sigs' = sigs)
            => (IF now < args.duration THEN pc' = "sleep" ELSE pc' = "finally")]_vars

\* the third tick of a campaign is started although coverage, crashes and
\* paths have not moved between the last two snapshots
C26_Witness ==
    /\ pc = "sleep"
    /\ feed = "stalled"
    /\ now = 2
    /\ faults = 0
    /\ prev_metrics # <<>>
    /\ prev_metrics[1].coverage_rate = get_metrics(SoundFile(Progress(feed, 1)), 1).coverage_rate
    /\ prev_metrics[1].runtime = 2

\* C27: when run_ppo_enhanced has been left after its loop was entered,
\* by return or by an exception, no fuzzer process is left running (no
\* signal, configuration whole).
C27_FuzzerStoppedOnExit ==
    (pc \in {"ret", "exit"} /\ sigs = 0 /\ ppo_config.keys = ConfigKeys)
        => fuzzer # "alive"

\* C28: a done flag that is set sits at the end of buffer['dones'], and
\* once it is stored no further tick is made and no further transition
\* stored; so whenever update() runs, _compute_returns gives what it would
\* give with no done flag set at all: its reset of R discards nothing
\* (gamma 1/2).
C28_DoneIsLast ==
    LET dones == buffer.dones
        g     == [num |-> 1, den |-> 2]
    IN  /\ \A i \in 1..Len(dones) :
              dones[i] => /\ i = Len(dones)
                          /\ pc \notin {"sleep", "metrics", "decide", "store"}
        /\ pc \in UpdatePCs
              => compute_returns(buffer, g)
                   = compute_returns([buffer EXCEPT !.dones =
                                         [i \in 1..Len(dones) |-> FALSE]], g)

\* the update reads a buffer of three transitions whose last one, and no
\* other, has done set
C28_Witness ==
    /\ pc = "epoch"
    /\ buffer.dones = <<FALSE, FALSE, TRUE>>
    /\ Len(buffer.rewards) = 3
    /\ now = args.duration

\* C29: at the end of every tick (the head of the loop) the buffer holds
\* as many transitions as the update counter counts, modulo
\* update_interval, and at most
\* ceil(batch_size / update_interval) * update_interval - 1 of them; an
\* update called from the loop goes past its guard exactly when the buffer
\* holds the first multiple of update_interval that is >= batch_size.
C29_BufferBounded ==
    LET u == ppo_config.update_interval
        b == ppo_config.batch_size
        first == ((b + u - 1) \div u) * u
        size == Len(buffer.states)
    IN  /\ pc = "loop"
              => /\ size % u = ppo_update_counter % u
                 /\ size <= first - 1
                 /\ \A i \in 1..BufferKeys : Len(buffer[BufferKey(i)]) = size
        /\ (pc = "epoch" /\ upd.caller = "loop") => size = first
        /\ (pc = "upd_ret" /\ upd.caller = "loop" /\ size > 0)
              => (size < first /\ size % u = 0)

\* a tick has ended with the buffer one short of the bound, the update
\* called in it having returned at its guard
C29_Witness ==
    /\ pc = "loop"
    /\ ppo_config.batch_size = 2
    /\ ppo_config.update_interval = 1
    /\ Len(buffer.dones) = 1
    /\ ppo_update_counter = 0
    /\ loss = ZeroLoss

\* C30: with every read sound, the reward built at tick k and stored with
\* the action chosen at tick k is compute_reward of the snapshots read at
\* ticks k-1 and k (the i-th reward of the buffer is that of ticks i and
\* i+1, whatever was read later), and at the end of every tick the previous
\* snapshot is the one read at that tick.
C30_RewardFromTwoSnapshots ==
    LET snap(t) == get_metrics(SoundFile(Progress(feed, t)), t)
    IN  faults = 0 =>
          /\ pc \in {"store", "count"}
                => /\ now >= 2
                   /\ tr.reward = compute_reward(ppo_config, snap(now - 1), snap(now))
          /\ \A i \in 1..Len(buffer.rewards) :
                buffer.rewards[i] = compute_reward(ppo_config, snap(i), snap(i + 1))
          /\ (pc = "loop" /\ now >= 1)
                => prev_metrics = <<snap(now)>> /\ curr_metrics = prev_metrics

\* four rewards have been stored in a campaign on a fuzzer that finds
\* less at every interval, and the fourth tick's reward differs from the
\* third's
C30_Witness ==
    /\ feed = "slowing"
    /\ pc = "loop"
    /\ faults = 0 /\ sigs = 0
    /\ Len(buffer.actions) = SnapshotsFed - 1
    /\ Len(buffer.rewards) = SnapshotsFed - 1
    /\ buffer.rewards[SnapshotsFed - 2] # buffer.rewards[SnapshotsFed - 1]
    /\ prev_metrics[1].runtime = SnapshotsFed

====
